---- MODULE Spec2Model ----
(***************************************************************************)
(* Homepage photo rotation of the photo-sharing application                *)
(* (Cursor Projects/CDPv4/src/App.js, component Homepage).                 *)
(*                                                                         *)
(* The Homepage keeps the last snapshot of the photos collection in its    *)
(* state `photos` and, on every render, computes getRotatedPhotos() from   *)
(* it.  A photo document is a record with the fields id and visibility and *)
(* the optional fields tags (a list of player names, modelled as player    *)
(* numbers) and timestamp (absent while the server timestamp is pending).  *)
(*                                                                         *)
(* The module also holds FirebaseProvider, App, PhotoUpload, PhotoGallery  *)
(* and Lightbox of the same file, with the photos collection, the like     *)
(* documents and the storage bucket they share, and the relay server of    *)
(* unnamed/part_000.                                                       *)
(* Each specification below runs one part of the program; the variables    *)
(* of the other parts keep their initial values.                           *)
(***************************************************************************)
EXTENDS Integers, Sequences, FiniteSets, TLC

VARIABLES photos, loading, rotatedPhotos, delivered,
          firebase, activeTab, upload, gallery, listener,
          collection, storageObjects, uploaded, deleted, requests,
          likes, likeCalls

\* the state of the Homepage; delivered records the documents of the last
\* snapshot as the store listed them
homepageVars == <<photos, loading, rotatedPhotos, delivered>>

\* the state of FirebaseProvider, App, PhotoUpload and PhotoGallery, the
\* snapshot listener of the gallery, the photos collection and the storage
\* bucket; uploaded and deleted record what this client's handlers did
appVars == <<firebase, activeTab, upload, gallery, listener,
             collection, storageObjects, uploaded, deleted>>

\* the requests of the relay server (unnamed/part_000)
relayVars == <<requests>>

\* the like documents of the photos, a pair of photo id and user id for the
\* document likes/{userId} of a photo, and the running calls of handleLike
likeVars == <<likes, likeCalls>>

vars == <<homepageVars, appVars, relayVars, likeVars>>

(***************************************************************************)
(* Bounds of the model.                                                    *)
(***************************************************************************)
\* documents in the collection, exhaustive specification
MaxDocs == 2
\* players a photo of the exhaustive specification can be tagged with
MaxPlayers == 3
\* server times 1..MaxTime of the exhaustive specification
MaxTime == 1
\* documents in the collection, roster specification
MaxRoster == 7
\* documents in the collection, timestamp specification
MaxTimedDocs == 3
\* players a photo of the timestamp specification can be tagged with
MaxTimedPlayers == 1
\* server times 1..MaxOrderTime of the timestamp specification
MaxOrderTime == 2
\* documents in the collection, one-player specification
MaxSingles == 13
\* photos uploaded to the collection of the gallery, over all clients
MaxGalleryDocs == 2
\* changes of the collection the gallery's listener has not delivered yet
MaxInFlight == 1
\* uploads started through the upload form
MaxUploads == 2
\* calls of handleUpload running at the same time
MaxPending == 1
\* calls of handleLike running at the same time
MaxLikeCalls == 1
\* the likesCount of a document stays within -MaxLikesCount..MaxLikesCount
MaxLikesCount == 2
\* requests sent to the relay
MaxRequests == 2

(***************************************************************************)
(* Program constants.                                                      *)
(***************************************************************************)
\* PLAYERS has 13 entries
NumPlayers == 13
\* photo.tags.length >= 3 is a team photo
teamThreshold == 3
\* teamPhotos.slice(0, Math.min(teamPhotos.length, 6))
teamCap == 6
\* const maxPhotos = 12
maxPhotos == 12

(***************************************************************************)
(* Photo documents.                                                        *)
(***************************************************************************)
Min(a, b) == IF a <= b THEN a ELSE b

Range(s) == {s[i] : i \in 1..Len(s)}

\* photo.tags is defined (an empty array is truthy in JavaScript)
HasTags(photo) == "tags" \in DOMAIN photo

\* photo.timestamp is defined
HasTimestamp(photo) == "timestamp" \in DOMAIN photo

\* photo.tags || []
tagsOrEmpty(photo) == IF HasTags(photo) THEN photo.tags ELSE <<>>

\* photo.timestamp?.toDate() || 0
timeOrZero(photo) == IF HasTimestamp(photo) THEN photo.timestamp ELSE 0

\* selectedPlayers: togglePlayer appends a player that is not yet selected,
\* so a tag list never holds a name twice; the players are picked in the
\* order of PLAYERS
TagLists(players, maxLen) ==
  UNION {{t \in [1..n -> players] : \A i, j \in 1..n : i < j => t[i] < t[j]}
         : n \in 0..maxLen}

\* for each id of 1..maxId the documents with that id: a visibility,
\* optional tags of at most maxLen players, an optional timestamp
Docs(maxId, visibilities, players, maxLen, times) ==
  [id \in 1..maxId |->
     LET base   == {[id |-> id, visibility |-> v] : v \in visibilities}
         tagged == base \cup {b @@ [tags |-> t] : b \in base, t \in TagLists(players, maxLen)}
     IN  tagged \cup {d @@ [timestamp |-> ts] : d \in tagged, ts \in times}]

(***************************************************************************)
(* getRotatedPhotos, step by step.                                         *)
(***************************************************************************)
\* the filter left out: every photo of the snapshot is eligible
publicPhotosUnfiltered(ph) == ph

\* the test negated: the photos that are not public are kept
publicPhotosInverted(ph) == SelectSeq(ph, LAMBDA photo : photo.visibility # "public")

\* photos.filter(photo => photo.visibility === 'public')
publicPhotos(ph) == SelectSeq(ph, LAMBDA photo : photo.visibility = "public")

\* list.flatMap(photo => photo.tags || [])
RECURSIVE flatMapTags(_)
flatMapTags(list) ==
  IF list = <<>> THEN <<>>
  ELSE tagsOrEmpty(Head(list)) \o flatMapTags(Tail(list))

\* Array.from(new Set(list)): first occurrences, in order
RECURSIVE uniqueInOrder(_)
uniqueInOrder(list) ==
  IF list = <<>> THEN <<>>
  ELSE LET front == uniqueInOrder(SubSeq(list, 1, Len(list) - 1))
           last  == list[Len(list)]
       IN  IF last \in Range(front) THEN front ELSE Append(front, last)

allPlayers(pub) == uniqueInOrder(flatMapTags(pub))

teamPhotos(pub) ==
  SelectSeq(pub, LAMBDA photo : HasTags(photo) /\ Len(photo.tags) >= teamThreshold)

individualPhotos(pub) ==
  SelectSeq(pub, LAMBDA photo : HasTags(photo) /\ Len(photo.tags) < teamThreshold)

\* the slice left out: every team photo is seeded
teamSeedUncapped(team) == team

\* teamPhotos.slice(0, Math.min(teamPhotos.length, 6))
teamSeed(team) == SubSeq(team, 1, Min(Len(team), teamCap))

\* allPlayers.filter(player => !featuredPlayers.has(player))
remainingPlayers(pub, seeded) ==
  LET featuredPlayers == Range(flatMapTags(seeded))
  IN  SelectSeq(allPlayers(pub), LAMBDA player : player \notin featuredPlayers)

\* individualPhotos.filter(photo => photo.tags && photo.tags.includes(player))
playerPhotos(individual, player) ==
  SelectSeq(individual, LAMBDA photo : HasTags(photo) /\ player \in Range(photo.tags))

\* the coverage pass bounded as the fill pass is: nothing is pushed once the
\* rotation holds maxPhotos photos
RECURSIVE coveragePassCapped(_, _, _)
coveragePassCapped(rotated, remaining, individual) ==
  IF remaining = <<>> THEN rotated
  ELSE LET found == playerPhotos(individual, Head(remaining))
           next  == IF Len(found) > 0 /\ Len(rotated) < 12
                    THEN Append(rotated, found[1]) ELSE rotated
       IN  coveragePassCapped(next, Tail(remaining), individual)

\* remainingPlayers.forEach(player => ... rotatedPhotos.push(playerPhotos[0]))
RECURSIVE coveragePass(_, _, _)
coveragePass(rotated, remaining, individual) ==
  IF remaining = <<>> THEN rotated
  ELSE LET found == playerPhotos(individual, Head(remaining))
           next  == IF Len(found) > 0 THEN Append(rotated, found[1]) ELSE rotated
       IN  coveragePass(next, Tail(remaining), individual)

\* the usedPhotoIds test left out: every individual photo is a candidate
fillPassUnfiltered(rotated, individual) ==
  IF Len(rotated) < maxPhotos
  THEN rotated \o SubSeq(individual, 1, Min(Len(individual), maxPhotos - Len(rotated)))
  ELSE rotated

\* if (rotatedPhotos.length < maxPhotos) push the unused individual photos
fillPass(rotated, individual) ==
  IF Len(rotated) < maxPhotos
  THEN LET usedPhotoIds == {rotated[i].id : i \in 1..Len(rotated)}
           unused       == SelectSeq(individual, LAMBDA photo : photo.id \notin usedPhotoIds)
           additionalPhotos == SubSeq(unused, 1, Min(Len(unused), maxPhotos - Len(rotated)))
       IN  rotated \o additionalPhotos
  ELSE rotated

\* the comparator with a and b exchanged (oldest first, as the comment list is sorted)
compareByTimeAscending(a, b) == timeOrZero(a) - timeOrZero(b)

\* the comparator (a, b) => (b.timestamp?.toDate() || 0) - (a.timestamp?.toDate() || 0)
compareByTime(a, b) == timeOrZero(b) - timeOrZero(a)

\* Array.prototype.sort is stable: an element is placed after the elements
\* that do not compare greater than it
RECURSIVE insertSorted(_, _)
insertSorted(sorted, photo) ==
  IF sorted = <<>> THEN <<photo>>
  ELSE IF compareByTime(Head(sorted), photo) <= 0
       THEN <<Head(sorted)>> \o insertSorted(Tail(sorted), photo)
       ELSE <<photo>> \o sorted

RECURSIVE sortByTime(_)
sortByTime(list) ==
  IF list = <<>> THEN <<>>
  ELSE insertSorted(sortByTime(SubSeq(list, 1, Len(list) - 1)), list[Len(list)])

\* the working selection after the team photos and the coverage pass
coveredSelection(ph) ==
  LET pub    == publicPhotos(ph)
      seeded == teamSeed(teamPhotos(pub))
  IN  coveragePass(seeded, remainingPlayers(pub, seeded), individualPhotos(pub))

\* the working selection before the final sort
selection(ph) ==
  LET pub        == publicPhotos(ph)
      individual == individualPhotos(pub)
      seeded     == teamSeed(teamPhotos(pub))
      covered    == coveragePass(seeded, remainingPlayers(pub, seeded), individual)
  IN  IF Len(pub) = 0 THEN <<>> ELSE fillPass(covered, individual)

getRotatedPhotos(ph) == sortByTime(selection(ph))

\* the state array sorted in place before the selection is made
getRotatedPhotosCallSortingPhotos(ph) ==
  [photos |-> sortByTime(ph), rotatedPhotos |-> getRotatedPhotos(sortByTime(ph))]

\* one call of getRotatedPhotos and the arrays it leaves behind: the state
\* array photos and the returned array.  filter, slice and push build new
\* arrays; sort arranges, in place, the array it is called on, which is the
\* local array rotatedPhotos
getRotatedPhotosCall(ph) ==
  LET sortTarget == "rotatedPhotos"
      arrays == [photos |-> ph, rotatedPhotos |-> selection(ph)]
  IN  IF Len(publicPhotos(ph)) = 0
      THEN [photos |-> ph, rotatedPhotos |-> <<>>]
      ELSE [arrays EXCEPT ![sortTarget] = sortByTime(@)]

(***************************************************************************)
(* The snapshot listener of the Homepage.  Every snapshot lists the        *)
(* documents of the collection in document-id order; the callback stores   *)
(* the list and the component renders again, which recomputes the          *)
(* rotation.                                                               *)
(***************************************************************************)
onSnapshot(snapshot) ==
  LET arrays == getRotatedPhotosCall(snapshot)
  IN  /\ photos' = arrays.photos
      /\ loading' = FALSE
      /\ rotatedPhotos' = arrays.rotatedPhotos
      /\ delivered' = snapshot
      /\ UNCHANGED <<appVars, relayVars, likeVars>>

idsOf(list) == {list[i].id : i \in 1..Len(list)}

\* the snapshot after a document was deleted from the collection
withoutDoc(list, i) == SubSeq(list, 1, i - 1) \o SubSeq(list, i + 1, Len(list))

(***************************************************************************)
(* The state of the other components after construction.                   *)
(***************************************************************************)
\* the value null of a user id and of the selected file
null == "null"

\* FirebaseProvider: useState(null), useState(false), useState('')
firebaseInitial ==
  [userId |-> null, isAuthReady |-> FALSE, firebaseInitError |-> ""]

\* PhotoUpload: no file, empty caption, public, no player selected, and no
\* call of handleUpload running
uploadInitial ==
  [file |-> null, caption |-> <<>>, visibility |-> "public",
   selectedPlayers |-> <<>>, uploading |-> FALSE, message |-> "",
   calls |-> <<>>]

\* the running calls of handleUpload after their component was unmounted
unmountedCalls(calls) == [i \in 1..Len(calls) |-> [calls[i] EXCEPT !.live = FALSE]]

\* no Lightbox is mounted; likeListener is "none" without a listener of the
\* like document, "attached" while its snapshot is to be delivered and
\* "delivered" after that
lightboxInitial ==
  [isLiked |-> FALSE, likesCount |-> 0, loading |-> FALSE, likeListener |-> "none"]

\* PhotoGallery: no photos, loading, nothing selected, no filter, the
\* lightbox closed; tagFilter is a player number, 0 for the empty filter;
\* selectedPhotoForLightbox is <<>> for null and <<photo>> for a photo
galleryInitial ==
  [photos |-> <<>>, loading |-> TRUE, message |-> "", selectedPhotos |-> <<>>,
   showDeleteConfirm |-> FALSE, tagFilter |-> 0, searchQuery |-> <<>>,
   isLightboxOpen |-> FALSE, selectedPhotoForLightbox |-> <<>>,
   currentPhotoIndex |-> 0, lightbox |-> lightboxInitial]

\* no listener while the gallery is not mounted
listenerInitial == [subscribed |-> FALSE, stale |-> 0, last |-> <<>>]

\* a listener just attached: the first snapshot is still to be delivered
listenerAttached == [subscribed |-> TRUE, stale |-> 1, last |-> <<>>]

\* a request the relay has not received yet
requestInitial ==
  [phase |-> "none", prompt |-> <<>>, settled |-> "none", responses |-> <<>>]

Init ==
  /\ photos = <<>>
  /\ loading = TRUE
  /\ rotatedPhotos = getRotatedPhotos(<<>>)
  /\ delivered = <<>>
  /\ firebase = firebaseInitial
  /\ activeTab = "home"
  /\ upload = uploadInitial
  /\ gallery = galleryInitial
  /\ listener = listenerInitial
  /\ collection = <<>>
  /\ storageObjects = {}
  /\ uploaded = {}
  /\ deleted = {}
  /\ requests = [id \in 1..MaxRequests |-> requestInitial]
  /\ likes = {}
  /\ likeCalls = <<>>

\* a photo was uploaded (by any client): the next snapshot lists one more
\* document; its id is new, and it is taken above the ids present, so that
\* the list stays in document-id order
docAdded(candidates) ==
  \E id \in DOMAIN candidates :
    /\ \A present \in idsOf(photos) : present < id
    /\ \E doc \in candidates[id] : onSnapshot(Append(photos, doc))

\* a photo was deleted
docRemoved ==
  \E i \in 1..Len(photos) : onSnapshot(withoutDoc(photos, i))

\* the server timestamp of a pending upload was resolved
docTimestamped(times) ==
  \E i \in 1..Len(photos), ts \in times :
    /\ ~HasTimestamp(photos[i])
    /\ onSnapshot([photos EXCEPT ![i] = photos[i] @@ [timestamp |-> ts]])

\* the documents of the exhaustive specification
AnyDocs == Docs(MaxDocs, {"public", "private"}, 1..MaxPlayers, teamThreshold, 1..MaxTime)

DocAdded == docAdded(AnyDocs)

DocRemoved == docRemoved

Next == DocAdded \/ DocRemoved

Spec == Init /\ [][Next]_vars

(***************************************************************************)
(* Timestamp specification: public individual photos with every            *)
(* combination of server times and pending timestamps, which are resolved  *)
(* later, in a collection large enough for the final sort to reorder       *)
(* distinct photos of equal time.                                          *)
(***************************************************************************)
\* the documents of the timestamp specification
TimedDocs == Docs(MaxTimedDocs, {"public"}, 1..MaxTimedPlayers, teamThreshold - 1, 1..MaxOrderTime)

TimedDocAdded == docAdded(TimedDocs)

TimedDocRemoved == docRemoved

TimedDocTimestamped == docTimestamped(1..MaxOrderTime)

NextTimes == TimedDocAdded \/ TimedDocRemoved \/ TimedDocTimestamped

SpecTimes == Init /\ [][NextTimes]_vars

(***************************************************************************)
(* Roster specification: a season of uploads.  Photos arrive one by one,   *)
(* in id and server-time order, and tag the players of PLAYERS in roster   *)
(* order: a photo tags the next players that no photo tags yet, or players *)
(* that are tagged already.  The collection grows to MaxRoster photos, so  *)
(* that the team cap and the maximum of the rotation are reached.          *)
(***************************************************************************)
\* the players tagged on the photos of a list
taggedPlayers(list) == Range(flatMapTags(list))

\* the j-th player of PLAYERS after the first k, wrapping around
nextPlayer(k, j) == ((k + j - 1) % NumPlayers) + 1

\* the tag lists a roster photo can carry when k players are tagged already:
\* players 1 and 2 with a new player, two new players, one new player,
\* player 1 alone
rosterTags(k) ==
  LET new == nextPlayer(k, 1)
  IN  [team   |-> <<1, 2, IF new < 3 THEN 3 ELSE new>>,
       pair   |-> <<new, nextPlayer(k, 2)>>,
       single |-> <<new>>,
       again  |-> <<1>>]

rosterDocs(list) ==
  LET id   == Len(list) + 1
      tags == rosterTags(Cardinality(taggedPlayers(list)))
      doc(visibility, t) ==
        [id |-> id, visibility |-> visibility, tags |-> t, timestamp |-> id]
  IN  {doc("public", tags[kind]) : kind \in DOMAIN tags}
        \cup {doc("private", tags.team)}

RosterDocAdded ==
  /\ Len(photos) < MaxRoster
  /\ \E doc \in rosterDocs(photos) : onSnapshot(Append(photos, doc))

NextRoster == RosterDocAdded

SpecRoster == Init /\ [][NextRoster]_vars

(***************************************************************************)
(* One-player specification: every upload is a public photo of one player, *)
(* the next player of PLAYERS without a photo or player 1 again.  The      *)
(* collection grows past maxPhotos documents.                              *)
(***************************************************************************)
singleDocs(list) ==
  {doc \in rosterDocs(list) : doc.visibility = "public" /\ Len(doc.tags) = 1}

SingleDocAdded ==
  /\ Len(photos) < MaxSingles
  /\ \E doc \in singleDocs(photos) : onSnapshot(Append(photos, doc))

NextSingles == SingleDocAdded

SpecSingles == Init /\ [][NextSingles]_vars

(***************************************************************************)
(* FirebaseProvider and App.  The provider's effect runs once: it fails    *)
(* (missing configuration, or an exception of the initialisation), or it   *)
(* registers the auth listener, whose callback runs at once and on every   *)
(* sign-in and sign-out.  App renders the initialising screen, the error,  *)
(* the sign-in form, or the navigation bar with the component of the       *)
(* active tab.  A component that is not rendered is unmounted and loses    *)
(* its state; it is constructed again when it is rendered next.            *)
(***************************************************************************)
\* the accounts that sign in at this client and upload from other clients
Users == {"coach", "parent"}

\* a render of App that shows the tabs to whoever has passed initialisation
appViewWithoutSignIn(fb) ==
  IF ~fb.isAuthReady THEN "initializing"
  ELSE IF fb.firebaseInitError # "" THEN "error"
  ELSE "content"

\* what App renders
appView(fb) ==
  IF ~fb.isAuthReady THEN "initializing"
  ELSE IF fb.firebaseInitError # "" THEN "error"
  ELSE IF fb.userId = null THEN "auth"
  ELSE "content"

\* the component App renders under the navigation bar, "none" without content
mounted(fb, tab) == IF appView(fb) = "content" THEN tab ELSE "none"

\* the state of PhotoUpload after a render that follows the provider state fb
\* and the tab: kept while it stays mounted, constructed otherwise
uploadAfter(fb, tab) ==
  IF mounted(fb, tab) = "upload" /\ mounted(firebase, activeTab) = "upload"
  THEN upload ELSE [uploadInitial EXCEPT !.calls = unmountedCalls(upload.calls)]

\* the state of PhotoGallery after that render
galleryAfter(fb, tab) ==
  IF mounted(fb, tab) = "gallery" /\ mounted(firebase, activeTab) = "gallery"
  THEN gallery ELSE galleryInitial

\* the running calls of handleLike after that render: those of a Lightbox
\* that is unmounted with its gallery set no state any more
likeCallsAfter(fb, tab) ==
  IF mounted(fb, tab) = "gallery" /\ mounted(firebase, activeTab) = "gallery"
  THEN likeCalls ELSE unmountedCalls(likeCalls)

\* the gallery's effect attaches the listener when the gallery is mounted
\* (db is set and isAuthReady holds whenever App renders content) and its
\* cleanup detaches it
listenerAfter(fb, tab) ==
  IF mounted(fb, tab) # "gallery" THEN listenerInitial
  ELSE IF mounted(firebase, activeTab) = "gallery" THEN listener
  ELSE listenerAttached

\* an effect that sets the error and leaves isAuthReady as it is
initializeFirebaseFailedNotReady(error) ==
  /\ ~firebase.isAuthReady
  /\ firebase' = [firebase EXCEPT !.firebaseInitError = error]
  /\ UNCHANGED <<activeTab, upload, gallery, listener, collection,
                 storageObjects, uploaded, deleted, homepageVars, relayVars,
                 likeVars>>

\* the provider's effect ends in setFirebaseInitError: error is "missing"
\* (no configuration) or "failed" (the catch block)
initializeFirebaseFailed(error) ==
  /\ ~firebase.isAuthReady
  /\ firebase' = [firebase EXCEPT !.firebaseInitError = error, !.isAuthReady = TRUE]
  /\ UNCHANGED <<activeTab, upload, gallery, listener, collection,
                 storageObjects, uploaded, deleted, homepageVars, relayVars,
                 likeVars>>

\* the callback of onAuthStateChanged: user is a signed-in account, or null
onAuthStateChanged(user) ==
  LET fb == [firebase EXCEPT !.userId = user, !.isAuthReady = TRUE]
  IN  /\ firebase.firebaseInitError = ""
      /\ ~firebase.isAuthReady \/ (user = null) # (firebase.userId = null)
      /\ firebase' = fb
      /\ upload' = uploadAfter(fb, activeTab)
      /\ gallery' = galleryAfter(fb, activeTab)
      /\ listener' = listenerAfter(fb, activeTab)
      /\ likeCalls' = likeCallsAfter(fb, activeTab)
      /\ UNCHANGED <<activeTab, collection, storageObjects, uploaded, deleted,
                     homepageVars, relayVars, likes>>

\* a click on a tab of the navigation bar
setActiveTab(tab) ==
  /\ appView(firebase) = "content"
  /\ tab # activeTab
  /\ activeTab' = tab
  /\ upload' = uploadAfter(firebase, tab)
  /\ gallery' = galleryAfter(firebase, tab)
  /\ listener' = listenerAfter(firebase, tab)
  /\ likeCalls' = likeCallsAfter(firebase, tab)
  /\ UNCHANGED <<firebase, collection, storageObjects, uploaded, deleted,
                 homepageVars, relayVars, likes>>

InitializeFirebaseFailed == \E error \in {"missing", "failed"} : initializeFirebaseFailed(error)

OnAuthStateChanged == \E user \in Users \cup {null} : onAuthStateChanged(user)

SetActiveTab == \E tab \in {"home", "gallery", "upload"} : setActiveTab(tab)

(***************************************************************************)
(* PhotoUpload and the photos collection.  An upload stores the file under *)
(* a name stamped with the time, then adds the photo document, to which    *)
(* the store gives an id and the server time.  The model numbers uploads   *)
(* in the order they are made, and uses that number as the file name, the  *)
(* document id and the server time.  refreshGallery is only the key of the *)
(* gallery: its change constructs the gallery again, and its value is left *)
(* out.                                                                    *)
(***************************************************************************)
\* the file the user picks
Files == {"photo.jpg"}

Max(S) == CHOOSE x \in S : \A y \in S : y <= x

\* the number of the next upload
newName(docs, objects) == 1 + Max(idsOf(docs) \cup objects \cup {0})

\* the document handleUpload adds for the form it was called with
photoDocument(name, userId, form) ==
  [id |-> name, caption |-> form.caption, uploadedBy |-> userId,
   timestamp |-> name, fileName |-> name, likesCount |-> 0,
   visibility |-> form.visibility, tags |-> form.selectedPlayers]

\* the guard of handleUpload: !file || !userId || !isAuthReady
handleUploadRefuses(up, fb) ==
  up.file = null \/ fb.userId = null \/ ~fb.isAuthReady

\* the listener has one more change of the collection to deliver
listenerBehind(l) == IF l.subscribed THEN [l EXCEPT !.stale = @ + 1] ELSE l

\* a list without its i-th element
without(list, i) == SubSeq(list, 1, i - 1) \o SubSeq(list, i + 1, Len(list))

\* a click on Upload, which is disabled while uploading and without a file.
\* The handler runs up to its first await.  upload.calls holds the running
\* calls of handleUpload with the values of their closure: the form, the
\* user, the name of the stored file (0 before uploadBytes has resolved),
\* the call awaited, and whether the component that made the call is still
\* mounted.
handleUpload ==
  LET call == [file |-> upload.file, caption |-> upload.caption,
               visibility |-> upload.visibility,
               selectedPlayers |-> upload.selectedPlayers,
               userId |-> firebase.userId, isAuthReady |-> firebase.isAuthReady,
               fileName |-> 0, awaiting |-> "uploadBytes", live |-> TRUE]
  IN  /\ mounted(firebase, activeTab) = "upload"
      /\ ~upload.uploading
      /\ upload.file # null
      /\ upload' =
           IF handleUploadRefuses(upload, firebase)
           THEN [upload EXCEPT !.message = "select"]
           ELSE [upload EXCEPT !.uploading = TRUE, !.message = "",
                               !.calls = Append(@, call)]
      /\ UNCHANGED <<firebase, activeTab, gallery, listener, collection,
                     storageObjects, uploaded, deleted, homepageVars, relayVars,
                     likeVars>>

\* the catch block without the finally block
uploadFailedStillUploading(up, call, rest) ==
  IF call.live THEN [up EXCEPT !.message = "error", !.calls = rest]
  ELSE [up EXCEPT !.calls = rest]

\* the form after the catch and finally blocks of the call, which is taken
\* out of the running calls; the state of an unmounted component is gone
uploadFailed(up, call, rest) ==
  IF call.live
  THEN [up EXCEPT !.message = "error", !.uploading = FALSE, !.calls = rest]
  ELSE [up EXCEPT !.calls = rest]

\* what a running call has done, for uploaded
didUpload(call, document) ==
  [file |-> call.file, userId |-> call.userId, isAuthReady |-> call.isAuthReady,
   fileName |-> call.fileName, document |-> document]

\* the call awaited by the i-th running handleUpload settles, and the handler
\* runs to its next await or to its end.  A resolved addDoc is followed by
\* the reset of the form and by onUploadSuccess, which sets the tab to
\* gallery and changes the key of the gallery, so that a gallery is
\* constructed even if one was mounted.
uploadSettled(i, rejected) ==
  LET call == upload.calls[i]
      rest == without(upload.calls, i)
      name == newName(collection, storageObjects)
      stored == [call EXCEPT !.fileName = name, !.awaiting = "getDownloadURL"]
  IN  /\ i \in 1..Len(upload.calls)
      /\ CASE rejected ->
                /\ upload' = uploadFailed(upload, call, rest)
                /\ UNCHANGED <<activeTab, gallery, listener, collection,
                               storageObjects, uploaded>>
           [] ~rejected /\ call.awaiting = "uploadBytes" ->
                /\ storageObjects' = storageObjects \cup {name}
                /\ uploaded' = uploaded \cup {didUpload(stored, FALSE)}
                /\ upload' = [upload EXCEPT !.calls[i] = stored]
                /\ UNCHANGED <<activeTab, gallery, listener, collection>>
           [] ~rejected /\ call.awaiting = "getDownloadURL" ->
                /\ upload' = [upload EXCEPT !.calls[i].awaiting = "addDoc"]
                /\ UNCHANGED <<activeTab, gallery, listener, collection,
                               storageObjects, uploaded>>
           [] ~rejected /\ call.awaiting = "addDoc" ->
                /\ collection' =
                     Append(collection, photoDocument(call.fileName, call.userId, call))
                /\ uploaded' = uploaded \cup {didUpload(call, TRUE)}
                /\ activeTab' = "gallery"
                /\ upload' = [uploadInitial EXCEPT !.calls = unmountedCalls(rest)]
                /\ gallery' = galleryInitial
                /\ listener' = IF mounted(firebase, "gallery") = "gallery"
                               THEN listenerAttached ELSE listenerInitial
                /\ UNCHANGED storageObjects
      /\ likeCalls' = IF ~rejected /\ call.awaiting = "addDoc"
                      THEN unmountedCalls(likeCalls) ELSE likeCalls
      /\ UNCHANGED <<firebase, deleted, homepageVars, relayVars, likes>>

\* a file was picked in the file input
handleFileChange(file) ==
  /\ mounted(firebase, activeTab) = "upload"
  /\ file # upload.file
  /\ upload' = [upload EXCEPT !.file = file]
  /\ UNCHANGED <<firebase, activeTab, gallery, listener, collection,
                 storageObjects, uploaded, deleted, homepageVars, relayVars,
                 likeVars>>

\* a click on a visibility radio button
setVisibility(visibility) ==
  /\ mounted(firebase, activeTab) = "upload"
  /\ visibility # upload.visibility
  /\ upload' = [upload EXCEPT !.visibility = visibility]
  /\ UNCHANGED <<firebase, activeTab, gallery, listener, collection,
                 storageObjects, uploaded, deleted, homepageVars, relayVars,
                 likeVars>>

\* the message of the upload form was closed
closeUploadMessage ==
  /\ mounted(firebase, activeTab) = "upload"
  /\ upload.message # ""
  /\ upload' = [upload EXCEPT !.message = ""]
  /\ UNCHANGED <<firebase, activeTab, gallery, listener, collection,
                 storageObjects, uploaded, deleted, homepageVars, relayVars,
                 likeVars>>

\* another client uploaded a photo, through the same handleUpload
photoAdded(userId, form) ==
  LET name == newName(collection, storageObjects)
  IN  /\ name <= MaxGalleryDocs
      /\ listener.subscribed => listener.stale < MaxInFlight
      /\ collection' = Append(collection, photoDocument(name, userId, form))
      /\ storageObjects' = storageObjects \cup {name}
      /\ listener' = listenerBehind(listener)
      /\ UNCHANGED <<firebase, activeTab, upload, gallery, uploaded, deleted,
                     homepageVars, relayVars, likeVars>>

\* another client deleted a photo and its file
photoDeleted(i) ==
  /\ listener.subscribed => listener.stale < MaxInFlight
  /\ collection' = withoutDoc(collection, i)
  /\ storageObjects' = storageObjects \ {collection[i].fileName}
  /\ listener' = listenerBehind(listener)
  /\ UNCHANGED <<firebase, activeTab, upload, gallery, uploaded, deleted,
                 homepageVars, relayVars, likeVars>>

\* the forms of the other clients: no caption and no player
PlainForms == {[uploadInitial EXCEPT !.visibility = v] : v \in {"public", "private"}}

\* and the forms with a caption or a player
TaggedForms ==
  {[form EXCEPT !.caption = c, !.selectedPlayers = t] :
     form \in PlainForms, c \in {<<>>, <<"J">>}, t \in {<<>>, <<1>>}}

\* the running calls that have not stored their file yet
unnamedCalls == {i \in 1..Len(upload.calls) : upload.calls[i].fileName = 0}

HandleUpload ==
  /\ Len(upload.calls) < MaxPending
  /\ newName(collection, storageObjects) + Cardinality(unnamedCalls) <= MaxUploads
  /\ handleUpload

UploadSettled ==
  \E i \in 1..MaxPending, rejected \in BOOLEAN : uploadSettled(i, rejected)

HandleFileChange == \E file \in Files : handleFileChange(file)

SetVisibility == \E visibility \in {"public", "private"} : setVisibility(visibility)

CloseUploadMessage == closeUploadMessage

NextUpload ==
  \/ InitializeFirebaseFailed
  \/ OnAuthStateChanged
  \/ SetActiveTab
  \/ HandleFileChange
  \/ SetVisibility
  \/ HandleUpload
  \/ UploadSettled
  \/ CloseUploadMessage

SpecUpload == Init /\ [][NextUpload]_vars

\* the first call of the auth listener's callback
FirstAuthState == ~firebase.isAuthReady /\ OnAuthStateChanged

\* the provider's effect runs after the first render, and the auth service
\* calls a registered listener with the state it starts in
ProviderEffect == InitializeFirebaseFailed \/ FirstAuthState

\* the same program where the provider's effect runs to its end and the
\* calls that handleUpload awaits settle
SpecUploadFair ==
  Init /\ [][NextUpload]_vars /\ WF_vars(ProviderEffect) /\ WF_vars(UploadSettled)

(***************************************************************************)
(* PhotoGallery.  The listener delivers the collection as it is when the   *)
(* callback runs; listener.stale counts the changes made since the last    *)
(* delivery (1 while the first snapshot is due) and listener.last keeps    *)
(* the documents of the last delivery.  Text is a list of characters;      *)
(* the names of PLAYERS are shortened to their initials.                   *)
(***************************************************************************)
PLAYERS ==
  << <<"A", "J">>, <<"A", "M">>, <<"B", "A">>, <<"C", "T">>, <<"D", "J">>,
     <<"E", "H">>, <<"H", "B">>, <<"J", "L">>, <<"M", "C">>, <<"M", "M">>,
     <<"M", "W">>, <<"R", "K">>, <<"T", "C">> >>

capitals == <<"A", "B", "C", "D", "E", "H", "J", "K", "L", "M", "R", "T", "W">>

smalls == <<"a", "b", "c", "d", "e", "h", "j", "k", "l", "m", "r", "t", "w">>

toLowerCase(text) ==
  [i \in 1..Len(text) |->
     IF \E k \in 1..Len(capitals) : capitals[k] = text[i]
     THEN smalls[CHOOSE k \in 1..Len(capitals) : capitals[k] = text[i]]
     ELSE text[i]]

\* String.prototype.includes
includes(text, part) ==
  \E i \in 0..(Len(text) - Len(part)) : SubSeq(text, i + 1, i + Len(part)) = part

\* the text of a tag: the name of the player
tagText(tag) == PLAYERS[tag]

\* a display that puts the matching photos in the order of their time
homepageFilteredPhotosSorted(rotated, searchQuery) ==
  LET searchMatch(photo) ==
        \/ searchQuery = <<>>
        \/ /\ "caption" \in DOMAIN photo
           /\ photo.caption # <<>>
           /\ includes(toLowerCase(photo.caption), toLowerCase(searchQuery))
        \/ /\ HasTags(photo)
           /\ \E i \in 1..Len(photo.tags) :
                includes(toLowerCase(tagText(photo.tags[i])), toLowerCase(searchQuery))
      matching == SelectSeq(rotated, searchMatch)
      RECURSIVE ascending(_)
      ascending(list) ==
        IF list = <<>> THEN <<>>
        ELSE LET first == CHOOSE i \in 1..Len(list) :
                            \A j \in 1..Len(list) :
                              \/ timeOrZero(list[i]) < timeOrZero(list[j])
                              \/ timeOrZero(list[i]) = timeOrZero(list[j]) /\ i <= j
             IN  <<list[first]>> \o ascending(withoutDoc(list, first))
  IN  ascending(matching)

\* filteredPhotos of the Homepage: the photos of the rotation that match the
\* search, which looks at the caption and at the tags
homepageFilteredPhotos(rotated, searchQuery) ==
  LET searchMatch(photo) ==
        \/ searchQuery = <<>>
        \/ /\ "caption" \in DOMAIN photo
           /\ photo.caption # <<>>
           /\ includes(toLowerCase(photo.caption), toLowerCase(searchQuery))
        \/ /\ HasTags(photo)
           /\ \E i \in 1..Len(photo.tags) :
                includes(toLowerCase(tagText(photo.tags[i])), toLowerCase(searchQuery))
  IN  SelectSeq(rotated, searchMatch)

\* a callback that stores the newest document only
fetchedPhotosNewestOnly(snapshot) ==
  SubSeq(sortByTime(snapshot), 1, Min(Len(snapshot), 1))

\* the photos the listener's callback stores: the documents of the snapshot,
\* newest first
fetchedPhotos(snapshot) == sortByTime(snapshot)

\* a filter that shows every photo of the collection that matches the tag
\* and the search
galleryFilteredPhotosOfAll(ph, userId, tagFilter, searchQuery) ==
  LET tagMatch(photo) ==
        tagFilter = 0 \/ (HasTags(photo) /\ tagFilter \in Range(photo.tags))
      searchMatch(photo) ==
        \/ searchQuery = <<>>
        \/ /\ "caption" \in DOMAIN photo
           /\ photo.caption # <<>>
           /\ includes(toLowerCase(photo.caption), toLowerCase(searchQuery))
        \/ /\ HasTags(photo)
           /\ \E i \in 1..Len(photo.tags) :
                includes(toLowerCase(PLAYERS[photo.tags[i]]), toLowerCase(searchQuery))
  IN  SelectSeq(ph, LAMBDA photo : tagMatch(photo) /\ searchMatch(photo))

\* filteredPhotos of the gallery: the photos that are visible to the user
\* and match the tag filter and the search
galleryFilteredPhotos(ph, userId, tagFilter, searchQuery) ==
  LET isOwner(photo) ==
        userId # null /\ "uploadedBy" \in DOMAIN photo /\ photo.uploadedBy = userId
      isVisible(photo) == photo.visibility = "public" \/ isOwner(photo)
      tagMatch(photo) ==
        tagFilter = 0 \/ (HasTags(photo) /\ tagFilter \in Range(photo.tags))
      searchMatch(photo) ==
        \/ searchQuery = <<>>
        \/ /\ "caption" \in DOMAIN photo
           /\ photo.caption # <<>>
           /\ includes(toLowerCase(photo.caption), toLowerCase(searchQuery))
        \/ /\ HasTags(photo)
           /\ \E i \in 1..Len(photo.tags) :
                includes(toLowerCase(PLAYERS[photo.tags[i]]), toLowerCase(searchQuery))
  IN  SelectSeq(ph, LAMBDA photo :
                      isVisible(photo) /\ tagMatch(photo) /\ searchMatch(photo))

\* the list the gallery displays in the current state
displayedPhotos ==
  galleryFilteredPhotos(gallery.photos, firebase.userId,
                        gallery.tagFilter, gallery.searchQuery)

\* allTags of the gallery
allTags(ph) == taggedPlayers(ph)

\* the gallery is rendered and no modal or lightbox covers it
galleryControls ==
  /\ mounted(firebase, activeTab) = "gallery"
  /\ ~gallery.isLightboxOpen
  /\ ~gallery.loading
  /\ gallery.message = ""
  /\ ~gallery.showDeleteConfirm

\* the snapshot callback of the gallery's listener
galleryOnSnapshot ==
  /\ listener.subscribed
  /\ listener.stale > 0
  /\ gallery' = [gallery EXCEPT !.photos = fetchedPhotos(collection),
                                !.loading = FALSE]
  /\ listener' = [listener EXCEPT !.stale = 0, !.last = collection]
  /\ UNCHANGED <<firebase, activeTab, upload, collection, storageObjects,
                 uploaded, deleted, homepageVars, relayVars, likeVars>>

\* the error callback of the listener, after which the store delivers nothing
galleryOnSnapshotError ==
  /\ listener.subscribed
  /\ gallery' = [gallery EXCEPT !.message = "load-error", !.loading = FALSE]
  /\ listener' = [listener EXCEPT !.subscribed = FALSE, !.stale = 0]
  /\ UNCHANGED <<firebase, activeTab, upload, collection, storageObjects,
                 uploaded, deleted, homepageVars, relayVars, likeVars>>

\* a click on a button of the tag filter
setTagFilter(tag) ==
  /\ galleryControls
  /\ tag # gallery.tagFilter
  /\ tag \in allTags(gallery.photos) \cup {0}
  /\ gallery' = [gallery EXCEPT !.tagFilter = tag]
  /\ UNCHANGED <<firebase, activeTab, upload, listener, collection,
                 storageObjects, uploaded, deleted, homepageVars, relayVars,
                 likeVars>>

\* the text of the search box was changed
setSearchQuery(query) ==
  /\ galleryControls
  /\ query # gallery.searchQuery
  /\ gallery' = [gallery EXCEPT !.searchQuery = query]
  /\ UNCHANGED <<firebase, activeTab, upload, listener, collection,
                 storageObjects, uploaded, deleted, homepageVars, relayVars,
                 likeVars>>

\* the message of the gallery was closed
closeGalleryMessage ==
  /\ mounted(firebase, activeTab) = "gallery"
  /\ gallery.message # ""
  /\ gallery' = [gallery EXCEPT !.message = ""]
  /\ UNCHANGED <<firebase, activeTab, upload, listener, collection,
                 storageObjects, uploaded, deleted, homepageVars, relayVars,
                 likeVars>>

\* a click on the selection circle of a displayed photo
togglePhotoSelection(photoId) ==
  /\ galleryControls
  /\ photoId \in idsOf(displayedPhotos)
  /\ gallery' =
       [gallery EXCEPT !.selectedPhotos =
          IF photoId \in Range(@)
          THEN SelectSeq(@, LAMBDA id : id # photoId)
          ELSE Append(@, photoId)]
  /\ UNCHANGED <<firebase, activeTab, upload, listener, collection,
                 storageObjects, uploaded, deleted, homepageVars, relayVars,
                 likeVars>>

\* a click on Clear Selection
clearSelection ==
  /\ galleryControls
  /\ Len(gallery.selectedPhotos) > 0
  /\ gallery' = [gallery EXCEPT !.selectedPhotos = <<>>]
  /\ UNCHANGED <<firebase, activeTab, upload, listener, collection,
                 storageObjects, uploaded, deleted, homepageVars, relayVars,
                 likeVars>>

\* a click on Delete Selected, and the Cancel button of the confirmation
setShowDeleteConfirm(show) ==
  /\ IF show THEN galleryControls /\ Len(gallery.selectedPhotos) > 0
             ELSE mounted(firebase, activeTab) = "gallery" /\ gallery.showDeleteConfirm
  /\ gallery' = [gallery EXCEPT !.showDeleteConfirm = show]
  /\ UNCHANGED <<firebase, activeTab, upload, listener, collection,
                 storageObjects, uploaded, deleted, homepageVars, relayVars,
                 likeVars>>

\* the calls handleDeleteSelected makes for the selected ids, in their order:
\* deleteDoc for a photo it finds in photos, then deleteObject if the photo
\* has a file name
RECURSIVE deleteCalls(_, _)
deleteCalls(selected, ph) ==
  IF selected = <<>> THEN <<>>
  ELSE LET found == SelectSeq(ph, LAMBDA p : p.id = Head(selected))
           calls ==
             IF found = <<>> THEN <<>>
             ELSE <<[call |-> "deleteDoc", photo |-> found[1]]>>
                    \o (IF "fileName" \in DOMAIN found[1]
                        THEN <<[call |-> "deleteObject", photo |-> found[1]]>>
                        ELSE <<>>)
       IN  calls \o deleteCalls(Tail(selected), ph)

\* handleDeleteSelected, of which the first done calls resolve.  deleteDoc
\* resolves also for a document that is gone; deleteObject rejects for a
\* file that is gone; any call can reject.  deleted records whose documents
\* the handler removed, and the user it ran for.
handleDeleteSelected(done) ==
  LET calls == deleteCalls(gallery.selectedPhotos, gallery.photos)
      made == SubSeq(calls, 1, done)
      docs == {made[k].photo.id : k \in {j \in 1..done : made[j].call = "deleteDoc"}}
      files == {made[k].photo.fileName :
                  k \in {j \in 1..done : made[j].call = "deleteObject"}}
      kept == SelectSeq(collection, LAMBDA p : p.id \notin docs)
  IN  /\ done \in 0..Len(calls)
      /\ files \subseteq storageObjects
      /\ collection' = kept
      /\ storageObjects' = storageObjects \ files
      /\ deleted' = deleted \cup
           {[uploadedBy |-> collection[i].uploadedBy, by |-> firebase.userId] :
              i \in {j \in 1..Len(collection) : collection[j].id \in docs}}
      /\ listener' = IF kept # collection THEN listenerBehind(listener) ELSE listener
      /\ gallery' =
           IF done = Len(calls)
           THEN [gallery EXCEPT !.selectedPhotos = <<>>, !.message = "deleted",
                                !.showDeleteConfirm = FALSE]
           ELSE [gallery EXCEPT !.message = "delete-error",
                                !.showDeleteConfirm = FALSE]
      /\ UNCHANGED <<firebase, activeTab, upload, uploaded, homepageVars, relayVars, likeVars>>

\* a click on Confirm in the confirmation
confirmDelete ==
  /\ mounted(firebase, activeTab) = "gallery"
  /\ gallery.showDeleteConfirm
  /\ listener.subscribed => listener.stale < MaxInFlight
  /\ \E done \in 0..(2 * Len(gallery.selectedPhotos)) : handleDeleteSelected(done)

\* the texts typed into the search box
Queries == {<<>>, <<"j">>, <<"a">>}

\* the list the Homepage displays for each text of the search box
homepageDisplays == [query \in Queries |-> homepageFilteredPhotos(rotatedPhotos, query)]

GalleryOnSnapshot == galleryOnSnapshot

GalleryOnSnapshotError == galleryOnSnapshotError

SetTagFilter == \E tag \in 0..NumPlayers : setTagFilter(tag)

SetSearchQuery == \E query \in Queries : setSearchQuery(query)

TaggedPhotoAdded == \E userId \in Users, form \in TaggedForms : photoAdded(userId, form)

PublicPhotoAdded == \E userId \in Users : photoAdded(userId, uploadInitial)

TogglePhotoSelection == \E photoId \in 1..MaxGalleryDocs : togglePhotoSelection(photoId)

ClearSelection == clearSelection

SetShowDeleteConfirm == \E show \in BOOLEAN : setShowDeleteConfirm(show)

ConfirmDelete == confirmDelete

CloseGalleryMessage == closeGalleryMessage

\* the gallery of a client whose users select and delete photos
NextDelete ==
  \/ OnAuthStateChanged
  \/ SetActiveTab
  \/ PublicPhotoAdded
  \/ GalleryOnSnapshot
  \/ TogglePhotoSelection
  \/ ClearSelection
  \/ SetShowDeleteConfirm
  \/ ConfirmDelete
  \/ CloseGalleryMessage

SpecDelete == Init /\ [][NextDelete]_vars

\* the gallery of a client whose users sign in and out, browse and filter
\* while other clients upload
NextGallery ==
  \/ OnAuthStateChanged
  \/ SetActiveTab
  \/ TaggedPhotoAdded
  \/ GalleryOnSnapshot
  \/ SetTagFilter
  \/ SetSearchQuery

SpecGallery == Init /\ [][NextGallery]_vars

PlainPhotoAdded == \E userId \in Users, form \in PlainForms : photoAdded(userId, form)

PhotoDeleted == \E i \in 1..Len(collection) : photoDeleted(i)

\* the gallery while other clients upload and delete
NextLive ==
  \/ OnAuthStateChanged
  \/ SetActiveTab
  \/ PlainPhotoAdded
  \/ PhotoDeleted
  \/ GalleryOnSnapshot
  \/ GalleryOnSnapshotError

\* the store calls the snapshot callback of an attached listener for every
\* change of the collection, and the event loop runs the callback
SpecLive == Init /\ [][NextLive]_vars /\ WF_vars(GalleryOnSnapshot)

(***************************************************************************)
(* The Lightbox of the gallery.  It is rendered above the gallery while    *)
(* isLightboxOpen holds and a photo is selected, and it is one component   *)
(* from openLightbox to closeLightbox: navigateLightbox changes its props. *)
(* handleLike is a step for the click and a step for each call it awaits.  *)
(***************************************************************************)
\* isLightboxOpen && selectedPhotoForLightbox, in a rendered gallery
lightboxShown ==
  /\ mounted(firebase, activeTab) = "gallery"
  /\ ~gallery.loading
  /\ gallery.isLightboxOpen
  /\ gallery.selectedPhotoForLightbox # <<>>

\* the state of a Lightbox constructed for photo: useState(false),
\* useState(photo.likesCount || 0), useState(false), and the listener of the
\* like document its effect attaches
lightboxMounted(photo) ==
  [isLiked |-> FALSE,
   likesCount |-> IF "likesCount" \in DOMAIN photo THEN photo.likesCount ELSE 0,
   loading |-> FALSE, likeListener |-> "attached"]

\* a click on the photo at index (from 0) of the displayed list
openLightbox(index) ==
  LET shown == displayedPhotos
  IN  /\ galleryControls
      /\ index \in 0..(Len(shown) - 1)
      /\ gallery' = [gallery EXCEPT !.selectedPhotoForLightbox = <<shown[index + 1]>>,
                                    !.currentPhotoIndex = index,
                                    !.isLightboxOpen = TRUE,
                                    !.lightbox = lightboxMounted(shown[index + 1])]
      /\ UNCHANGED <<firebase, activeTab, upload, listener, collection,
                     storageObjects, uploaded, deleted, homepageVars, relayVars,
                     likeVars>>

\* a click on the close button of the Lightbox
closeLightbox ==
  /\ lightboxShown
  /\ gallery' = [gallery EXCEPT !.selectedPhotoForLightbox = <<>>,
                                !.isLightboxOpen = FALSE,
                                !.lightbox = lightboxInitial]
  /\ likeCalls' = unmountedCalls(likeCalls)
  /\ UNCHANGED <<firebase, activeTab, upload, listener, collection,
                 storageObjects, uploaded, deleted, homepageVars, relayVars,
                 likes>>

\* the state of the gallery after navigateLightbox(newIndex); the effect of
\* the Lightbox runs again for the new photo and attaches a new listener
navigated(g, shown, newIndex) ==
  IF newIndex >= 0 /\ newIndex < Len(shown)
  THEN [g EXCEPT !.selectedPhotoForLightbox = <<shown[newIndex + 1]>>,
                 !.currentPhotoIndex = newIndex,
                 !.lightbox.likeListener = "attached"]
  ELSE g

\* a click on a navigation button of the Lightbox: the left one is disabled
\* at index 0, the right one at index totalPhotos - 1
navigateLightbox(step) ==
  LET shown == displayedPhotos
      currentIndex == gallery.currentPhotoIndex
  IN  /\ lightboxShown
      /\ \/ step = -1 /\ currentIndex # 0
         \/ step = 1 /\ currentIndex # Len(shown) - 1
      /\ gallery' = navigated(gallery, shown, currentIndex + step)
      /\ UNCHANGED <<firebase, activeTab, upload, listener, collection,
                     storageObjects, uploaded, deleted, homepageVars, relayVars,
                     likeVars>>

\* the like document of a photo and a user
likeDoc(photoId, userId) == <<photoId, userId>>

\* the snapshot callback of the listener of the like document
likeOnSnapshot ==
  /\ lightboxShown
  /\ gallery.lightbox.likeListener = "attached"
  /\ gallery' = [gallery EXCEPT
       !.lightbox.isLiked =
          likeDoc(gallery.selectedPhotoForLightbox[1].id, firebase.userId) \in likes,
       !.lightbox.likeListener = "delivered"]
  /\ UNCHANGED <<firebase, activeTab, upload, listener, collection,
                 storageObjects, uploaded, deleted, homepageVars, relayVars,
                 likeVars>>

\* a click on the like button, which is disabled while loading: the call
\* keeps the photo, the user and the isLiked of the render it was made in
handleLike ==
  LET call == [photoId |-> gallery.selectedPhotoForLightbox[1].id,
               userId |-> firebase.userId,
               isLiked |-> gallery.lightbox.isLiked,
               awaiting |-> "likeDoc", live |-> TRUE]
  IN  /\ lightboxShown
      /\ ~gallery.lightbox.loading
      /\ firebase.userId # null
      /\ gallery' = [gallery EXCEPT !.lightbox.loading = TRUE]
      /\ likeCalls' = Append(likeCalls, call)
      /\ UNCHANGED <<firebase, activeTab, upload, listener, collection,
                     storageObjects, uploaded, deleted, homepageVars, relayVars,
                     likes>>

\* increment(-1) after deleteDoc, increment(1) after setDoc
likeDelta(call) == IF call.isLiked THEN -1 ELSE 1

\* the documents after updateDoc(photoRef, {likesCount: increment(delta)})
updatedLikesCount(docs, photoId, delta) ==
  [k \in 1..Len(docs) |->
     IF docs[k].id = photoId
     THEN [docs[k] EXCEPT !.likesCount = @ + delta] ELSE docs[k]]

\* the Lightbox after the catch and finally of handleLike
likeFailed(g, call) ==
  IF call.live THEN [g EXCEPT !.lightbox.loading = FALSE] ELSE g

\* the Lightbox after the try of handleLike ran to its end
likeDone(g, call) ==
  IF call.live
  THEN [g EXCEPT !.lightbox.likesCount = @ + likeDelta(call),
                 !.lightbox.isLiked = ~call.isLiked,
                 !.lightbox.loading = FALSE]
  ELSE g

\* the listener of the like document after a write to the document doc
likeListenerAfter(g, doc) ==
  IF /\ lightboxShown
     /\ g.lightbox.likeListener # "none"
     /\ doc = likeDoc(g.selectedPhotoForLightbox[1].id, firebase.userId)
  THEN [g EXCEPT !.lightbox.likeListener = "attached"]
  ELSE g

\* the call awaited by the i-th running handleLike settles, and the handler
\* runs to its next await or to its end; updateDoc rejects for a photo
\* document that was deleted
likeSettled(i, rejected) ==
  LET call == likeCalls[i]
      rest == without(likeCalls, i)
      doc == likeDoc(call.photoId, call.userId)
  IN  /\ i \in 1..Len(likeCalls)
      /\ CASE rejected \/ (call.awaiting = "updateDoc" /\ call.photoId \notin idsOf(collection)) ->
                /\ gallery' = likeFailed(gallery, call)
                /\ likeCalls' = rest
                /\ UNCHANGED <<likes, collection, listener>>
           [] ~rejected /\ call.awaiting = "likeDoc" ->
                /\ likes' = IF call.isLiked THEN likes \ {doc} ELSE likes \cup {doc}
                /\ likeCalls' = [likeCalls EXCEPT ![i].awaiting = "updateDoc"]
                /\ gallery' = IF call.isLiked /\ doc \notin likes
                              THEN gallery ELSE likeListenerAfter(gallery, doc)
                /\ UNCHANGED <<collection, listener>>
           [] ~rejected /\ call.awaiting = "updateDoc" /\ call.photoId \in idsOf(collection) ->
                /\ collection' = updatedLikesCount(collection, call.photoId, likeDelta(call))
                /\ listener' = listenerBehind(listener)
                /\ gallery' = likeDone(gallery, call)
                /\ likeCalls' = rest
                /\ UNCHANGED likes
      /\ UNCHANGED <<firebase, activeTab, upload, storageObjects, uploaded, deleted,
                     homepageVars, relayVars>>

OpenLightbox == \E index \in 0..(MaxGalleryDocs - 1) : openLightbox(index)

CloseLightbox == closeLightbox

NavigateLightbox == \E step \in {-1, 1} : navigateLightbox(step)

LikeOnSnapshot == likeOnSnapshot

\* the value of likesCount stays within MaxLikesCount of 0, and at most
\* MaxLikeCalls calls of handleLike are running
HandleLike ==
  /\ Len(likeCalls) < MaxLikeCalls
  /\ \A k \in 1..Len(collection) :
       /\ collection[k].likesCount < MaxLikesCount
       /\ collection[k].likesCount > -MaxLikesCount
  /\ handleLike

LikeSettled ==
  /\ listener.subscribed => listener.stale < MaxInFlight
  /\ \E i \in 1..MaxLikeCalls, rejected \in BOOLEAN : likeSettled(i, rejected)

\* a click on the Home or the Gallery tab
SetHomeOrGalleryTab == \E tab \in {"home", "gallery"} : setActiveTab(tab)

\* another client uploaded a public photo as the first user
CoachPhotoAdded == photoAdded("coach", uploadInitial)

\* the first photo of the collection
FirstPhotoAdded == collection = <<>> /\ CoachPhotoAdded

\* the first like of the collection
FirstLike == likes = {} /\ likeCalls = <<>> /\ handleLike

\* the gallery and the Lightbox of its one photo while users sign in and
\* out and like and unlike the photo
NextLikes ==
  \/ OnAuthStateChanged
  \/ SetHomeOrGalleryTab
  \/ FirstPhotoAdded
  \/ GalleryOnSnapshot
  \/ OpenLightbox
  \/ CloseLightbox
  \/ LikeOnSnapshot
  \/ HandleLike
  \/ LikeSettled

SpecLikes == Init /\ [][NextLikes]_vars

\* the gallery and its Lightbox while users sign in and out, photos are
\* uploaded and one of them is liked
NextLightbox ==
  \/ OnAuthStateChanged
  \/ SetHomeOrGalleryTab
  \/ CoachPhotoAdded
  \/ GalleryOnSnapshot
  \/ OpenLightbox
  \/ CloseLightbox
  \/ NavigateLightbox
  \/ LikeOnSnapshot
  \/ FirstLike
  \/ LikeSettled

SpecLightbox == Init /\ [][NextLightbox]_vars

(***************************************************************************)
(* The relay server (unnamed/part_000).  A request is received, the        *)
(* handler builds the prompt and awaits createChatCompletion; when the     *)
(* call settles the handler sends its response.  Several requests can be   *)
(* awaiting at the same time.                                              *)
(***************************************************************************)
\* the bodies the client posts: with and without the optional LinkedIn URL
Bodies ==
  {[resumeText |-> "resume", jobDesc |-> "job", linkedInUrl |-> url] :
     url \in {"", "url"}}
    \cup {[resumeText |-> "resume", jobDesc |-> "job"]}

\* the parts the template of the prompt is filled with
promptOf(body) ==
  <<body.resumeText, body.jobDesc,
    IF "linkedInUrl" \in DOMAIN body /\ body.linkedInUrl # ""
    THEN body.linkedInUrl ELSE "N/A">>

\* what createChatCompletion settles with: a rejection, or completion.data
\* without choices, with an empty list of choices, with a first choice that
\* has no message, or with choices that have a message
Settlements ==
  {[resolved |-> FALSE],
   [resolved |-> TRUE, data |-> [error |-> "upstream"]],
   [resolved |-> TRUE, data |-> [choices |-> <<>>]],
   [resolved |-> TRUE, data |-> [choices |-> <<[finish_reason |-> "length"]>>]],
   [resolved |-> TRUE, data |-> [choices |-> <<[message |-> [content |-> "first"]]>>]],
   [resolved |-> TRUE,
    data |-> [choices |-> <<[message |-> [content |-> ""]],
                            [message |-> [content |-> "second"]]>>]]}

\* completion.data.choices[0].message.content can be read
hasFirstMessage(settlement) ==
  /\ settlement.resolved
  /\ "choices" \in DOMAIN settlement.data
  /\ Len(settlement.data.choices) >= 1
  /\ "message" \in DOMAIN settlement.data.choices[1]

\* a handler whose try block has no catch
responsesOfUncaught(settlement) ==
  IF hasFirstMessage(settlement)
  THEN <<[status |-> 200,
          body |-> [output |-> settlement.data.choices[1].message.content]]>>
  ELSE <<>>

\* the responses the handler sends once the call has settled: res.json in
\* the try block, or the 500 of the catch block, which a rejection of the
\* call and a TypeError of the property reads both reach
responsesOf(settlement) ==
  IF hasFirstMessage(settlement)
  THEN <<[status |-> 200,
          body |-> [output |-> settlement.data.choices[1].message.content]]>>
  ELSE <<[status |-> 500, body |-> [error |-> "AI request failed"]]>>

\* POST /api/generate arrives: the handler runs up to the await
postGenerate(id, body) ==
  /\ requests[id].phase = "none"
  /\ \A earlier \in 1..(id - 1) : requests[earlier].phase # "none"
  /\ requests' = [requests EXCEPT ![id].phase = "awaiting",
                                  ![id].prompt = promptOf(body)]
  /\ UNCHANGED <<homepageVars, appVars, likeVars>>

\* the awaited call settles and the handler runs to its end
completionSettled(id, settlement) ==
  /\ requests[id].phase = "awaiting"
  /\ requests' = [requests EXCEPT
                    ![id].phase = "done",
                    ![id].settled = settlement,
                    ![id].responses = @ \o responsesOf(settlement)]
  /\ UNCHANGED <<homepageVars, appVars, likeVars>>

PostGenerate == \E id \in 1..MaxRequests, body \in Bodies : postGenerate(id, body)

CompletionSettled ==
  \E id \in 1..MaxRequests, settlement \in Settlements : completionSettled(id, settlement)

NextRelay == PostGenerate \/ CompletionSettled

\* the HTTP call behind createChatCompletion ends, with a response or with
\* an error of the connection
SpecRelay == Init /\ [][NextRelay]_vars /\ WF_vars(CompletionSettled)

(***************************************************************************)
(* Properties of the rotation.                                             *)
(***************************************************************************)
\* the players tagged on a public photo of the snapshot
publicSubjects == taggedPlayers(publicPhotos(photos))

\* a team photo in the sense of the data model: three or more tags
IsTeamPhoto(photo) == HasTags(photo) /\ Len(photo.tags) >= teamThreshold

\* C1: the rotation never holds more than maxPhotos (12) photos
C1_AtMostMaxPhotos == Len(rotatedPhotos) <= maxPhotos

\* C2: no photo id appears twice in the rotation
C2_NoDuplicateIds ==
  \A i, j \in 1..Len(rotatedPhotos) :
    i # j => rotatedPhotos[i].id # rotatedPhotos[j].id

\* C3: when the public photos tag at most maxPhotos (12) distinct players,
\* every one of these players is tagged on a photo of the rotation
C3_EverySubjectFeatured ==
  Cardinality(publicSubjects) <= maxPhotos
    => \A player \in publicSubjects :
         \E i \in 1..Len(rotatedPhotos) : player \in Range(tagsOrEmpty(rotatedPhotos[i]))

\* C4: every photo of the rotation is public
C4_OnlyPublic ==
  \A i \in 1..Len(rotatedPhotos) : rotatedPhotos[i].visibility = "public"

\* C4 witness: the snapshot holds a private photo and the rotation is not empty
C4_Witness ==
  /\ \E i \in 1..Len(photos) : photos[i].visibility = "private"
  /\ Len(rotatedPhotos) > 0

\* C5: every public photo is a team photo or an individual photo and not
\* both; a public photo without a tags field is an individual photo and,
\* while the rotation has room, part of the rotation
C5_ClassifiedExactlyOnce ==
  LET pub        == publicPhotos(photos)
      team       == Range(teamPhotos(pub))
      individual == Range(individualPhotos(pub))
  IN  \A i \in 1..Len(photos) :
        photos[i].visibility = "public" =>
          /\ (photos[i] \in team) # (photos[i] \in individual)
          /\ ~HasTags(photos[i]) =>
                /\ photos[i] \in individual
                /\ Len(rotatedPhotos) < maxPhotos => photos[i] \in Range(rotatedPhotos)

\* C6: the rotation is ordered by timestamp, newest first; photos without a
\* timestamp come after all photos with one; photos of the same time, and
\* the photos without timestamp, keep the order in which they were selected
C6_NewestFirstStable ==
  LET out == rotatedPhotos
      sel == selection(photos)
      sameTime(a, b) ==
        IF HasTimestamp(a) THEN HasTimestamp(b) /\ a.timestamp = b.timestamp
        ELSE ~HasTimestamp(b)
  IN  /\ Len(out) = Len(sel)
      /\ \A i, j \in 1..Len(out) :
            (i < j /\ HasTimestamp(out[j]))
              => (HasTimestamp(out[i]) /\ out[i].timestamp >= out[j].timestamp)
      /\ \A k \in 1..Len(sel) :
            SelectSeq(out, LAMBDA photo : sameTime(sel[k], photo))
              = SelectSeq(sel, LAMBDA photo : sameTime(sel[k], photo))

\* C6 witness: the sort moved a photo, the rotation holds photos with and
\* without timestamp, and two different photos of the same time
C6_Witness ==
  /\ rotatedPhotos # selection(photos)
  /\ \E i, j \in 1..Len(rotatedPhotos) :
        HasTimestamp(rotatedPhotos[i]) /\ ~HasTimestamp(rotatedPhotos[j])
  /\ \E i, j \in 1..Len(rotatedPhotos) :
        /\ rotatedPhotos[i].id # rotatedPhotos[j].id
        /\ HasTimestamp(rotatedPhotos[i]) /\ HasTimestamp(rotatedPhotos[j])
        /\ rotatedPhotos[i].timestamp = rotatedPhotos[j].timestamp

\* C7: listing the records of the snapshot in another order gives the same
\* rotation
C7_OrderIndependent ==
  \A order \in Permutations(1..Len(photos)) :
    getRotatedPhotos([i \in 1..Len(photos) |-> photos[order[i]]]) = rotatedPhotos

\* C9: the rotation holds at most as many photos as the snapshot
C9_AtMostInput == Len(rotatedPhotos) <= Len(photos)

\* C10: with n public team photos in the snapshot, the team photos of the
\* rotation are the first min(n, 6) of them, each once
C10_TeamSeedCapped ==
  LET team  == SelectSeq(photos, LAMBDA photo : photo.visibility = "public" /\ IsTeamPhoto(photo))
      first == Min(Len(team), teamCap)
      shown == SelectSeq(rotatedPhotos, IsTeamPhoto)
  IN  /\ Len(shown) = first
      /\ Range(shown) = {team[i] : i \in 1..first}

\* C10 witness: the snapshot holds more public team photos than the cap and
\* the rotation shows as many photos as the cap allows
C10_Witness ==
  /\ Len(SelectSeq(photos, LAMBDA photo : photo.visibility = "public" /\ IsTeamPhoto(photo))) > teamCap
  /\ Len(rotatedPhotos) = teamCap

\* C11: when the snapshot holds no public photo (it is empty or every photo
\* is private) the rotation is the empty list
C11_NoPublicNoRotation ==
  (\A i \in 1..Len(photos) : photos[i].visibility # "public") => rotatedPhotos = <<>>

\* C11 witness: a snapshot was delivered, it holds photos, all of them
\* private, and the rotation is empty
C11_Witness ==
  /\ ~loading
  /\ Len(photos) > 0
  /\ \A i \in 1..Len(photos) : photos[i].visibility = "private"
  /\ rotatedPhotos = <<>>

\* C12: when the snapshot consists of at most maxPhotos (12) public photos
\* with exactly one tag each, the rotation holds every photo of the
\* snapshot once and nothing else
C12_OneTagPhotosAllShown ==
  (/\ Len(photos) <= maxPhotos
   /\ \A i \in 1..Len(photos) :
        /\ photos[i].visibility = "public"
        /\ HasTags(photos[i]) /\ Len(photos[i].tags) = 1)
    => /\ Len(rotatedPhotos) = Len(photos)
       /\ \A i \in 1..Len(photos) :
            Cardinality({j \in 1..Len(rotatedPhotos) : rotatedPhotos[j] = photos[i]}) = 1

\* C12 witness: maxPhotos one-tag photos, two of them of the same player
\* and two of different players, all in the rotation
C12_Witness ==
  /\ Len(photos) = maxPhotos
  /\ \A i \in 1..Len(photos) : photos[i].visibility = "public" /\ Len(tagsOrEmpty(photos[i])) = 1
  /\ \E i, j \in 1..Len(photos) : i # j /\ photos[i].tags = photos[j].tags
  /\ \E i, j \in 1..Len(photos) : photos[i].tags # photos[j].tags
  /\ Len(rotatedPhotos) = maxPhotos

\* an individual photo in the sense of the data model: fewer than three
\* tags, a missing tags field counting as no tags
IsIndividualPhoto(photo) == Len(tagsOrEmpty(photo)) < teamThreshold

\* the position of a photo in the snapshot
positionOf(photo) == CHOOSE i \in 1..Len(photos) : photos[i] = photo

\* the photos the fill pass added to the working selection
fillAdditions ==
  SubSeq(selection(photos), Len(coveredSelection(photos)) + 1, Len(selection(photos)))

\* C13: when the rotation holds fewer than maxPhotos (12) photos, every
\* public individual photo of the snapshot is in the rotation; the photos
\* added by the fill pass are in snapshot order
C13_FillExhaustsIndividuals ==
  /\ Len(rotatedPhotos) < maxPhotos
       => \A i \in 1..Len(photos) :
            (photos[i].visibility = "public" /\ IsIndividualPhoto(photos[i]))
              => photos[i] \in Range(rotatedPhotos)
  /\ \A a, b \in 1..Len(fillAdditions) :
       a < b => positionOf(fillAdditions[a]) < positionOf(fillAdditions[b])

\* C14: a call of getRotatedPhotos leaves the photos of the Homepage as the
\* snapshot delivered them: the same records in the same order
C14_InputUntouched == photos = delivered

\* C14 witness: a rotation was computed and its final sort moved a photo
C14_Witness ==
  /\ ~loading
  /\ photos = delivered
  /\ rotatedPhotos # selection(delivered)
  /\ Len(rotatedPhotos) > 1

\* the public team photos that are seeded: the first teamCap in snapshot order
seededTeamPhotos ==
  LET team == SelectSeq(photos, LAMBDA photo : photo.visibility = "public" /\ IsTeamPhoto(photo))
  IN  SubSeq(team, 1, Min(Len(team), teamCap))

\* the public individual photos tagged with a player, in snapshot order
individualPhotosOf(player) ==
  SelectSeq(photos, LAMBDA photo :
    /\ photo.visibility = "public"
    /\ HasTags(photo) /\ Len(photo.tags) < teamThreshold
    /\ player \in Range(photo.tags))

\* the players the coverage pass has to serve: tagged on a public photo, on
\* no seeded team photo and on some public individual photo
playersToCover ==
  {player \in publicSubjects :
     /\ player \notin taggedPlayers(seededTeamPhotos)
     /\ Len(individualPhotosOf(player)) > 0}

C16_UploadOnlySignedIn ==
  /\ \A did \in uploaded :
       did.file # null /\ did.isAuthReady /\ did.userId # null
  /\ \A name \in storageObjects : \E did \in uploaded : did.fileName = name
  /\ \A i \in 1..Len(collection) :
       \E did \in uploaded :
         did.document /\ did.fileName = collection[i].id
                      /\ did.userId = collection[i].uploadedBy
  /\ mounted(firebase, activeTab) # "none" =>
       /\ firebase.isAuthReady
       /\ firebase.firebaseInitError = ""
       /\ firebase.userId # null

\* an upload has added its document and a second one has stored its file,
\* while the form is rendered
C16_Witness ==
  /\ \E did \in uploaded : did.document
  /\ Len(collection) > 0
  /\ Cardinality(storageObjects) > Len(collection)
  /\ mounted(firebase, activeTab) = "upload"

\* C15: every photo of the list the gallery displays is public or was
\* uploaded by the signed-in user
C15_PrivateOnlyToOwner ==
  \A i \in 1..Len(displayedPhotos) :
    \/ displayedPhotos[i].visibility = "public"
    \/ firebase.userId # null /\ displayedPhotos[i].uploadedBy = firebase.userId

\* the gallery holds a private photo of the user, which it displays, and a
\* private photo of another user, which it does not
C15_Witness ==
  /\ mounted(firebase, activeTab) = "gallery"
  /\ \E i \in 1..Len(displayedPhotos) :
       /\ displayedPhotos[i].visibility = "private"
       /\ displayedPhotos[i].uploadedBy = firebase.userId
  /\ \E i \in 1..Len(gallery.photos) :
       /\ gallery.photos[i].visibility = "private"
       /\ gallery.photos[i].uploadedBy # firebase.userId
       /\ gallery.photos[i] \notin Range(displayedPhotos)

\* C17: every photo that handleDeleteSelected has removed from the
\* collection was uploaded by the user it ran for
C17_DeletesOnlyOwn == \A d \in deleted : d.uploadedBy = d.by

\* C18: the list the gallery displays is computed from the snapshot
\* delivered last; when the listener has delivered every change, the
\* gallery's photos are the documents of the collection; and a photo that is
\* in the collection while the listener is attached gets into the gallery's
\* photos, unless it is deleted or the listener ends first
C18_RealTimeUpdates ==
  /\ [](displayedPhotos =
          galleryFilteredPhotos(fetchedPhotos(listener.last), firebase.userId,
                                gallery.tagFilter, gallery.searchQuery))
  /\ [](listener.subscribed /\ listener.stale = 0 =>
          idsOf(gallery.photos) = idsOf(collection))
  /\ \A id \in 1..MaxGalleryDocs :
       (listener.subscribed /\ id \in idsOf(collection))
         ~> \/ id \in idsOf(gallery.photos)
            \/ id \notin idsOf(collection)
            \/ ~listener.subscribed

\* the listener has delivered a collection of two or more photos, which the
\* gallery holds newest first
C18_Witness ==
  /\ listener.subscribed
  /\ listener.stale = 0
  /\ Len(gallery.photos) >= 2
  /\ gallery.photos = fetchedPhotos(collection)
  /\ gallery.photos # collection

\* C19: a request never has more than one response; once its handler has
\* ended it has exactly one, which is 200 with the content of the first
\* choice if the call resolved with a first choice that has a message, and
\* 500 with the error 'AI request failed' otherwise; and every request that
\* awaits the call is answered
C19_ExactlyOneResponse ==
  /\ [](\A id \in 1..MaxRequests :
          LET request == requests[id]
          IN  /\ Len(request.responses) <= 1
              /\ request.phase # "done" => request.responses = <<>>
              /\ request.phase = "done" =>
                   /\ Len(request.responses) = 1
                   /\ IF hasFirstMessage(request.settled)
                      THEN request.responses[1] =
                             [status |-> 200,
                              body |-> [output |->
                                request.settled.data.choices[1].message.content]]
                      ELSE request.responses[1] =
                             [status |-> 500,
                              body |-> [error |-> "AI request failed"]])
  /\ \A id \in 1..MaxRequests :
       (requests[id].phase = "awaiting") ~> (Len(requests[id].responses) = 1)

\* one request was answered with 200 and another with 500 although its call
\* resolved
C19_Witness ==
  \E a, b \in 1..MaxRequests :
    /\ requests[a].phase = "done" /\ requests[a].responses[1].status = 200
    /\ requests[b].phase = "done" /\ requests[b].responses[1].status = 500
    /\ requests[b].settled.resolved

\* list is made of elements of of, in the order they have in of
RECURSIVE IsSubsequence(_, _)
IsSubsequence(list, of) ==
  IF list = <<>> THEN TRUE
  ELSE IF of = <<>> THEN FALSE
  ELSE IF Head(list) = Head(of) THEN IsSubsequence(Tail(list), Tail(of))
  ELSE IsSubsequence(list, Tail(of))

\* C21: for every search query the list the Homepage displays is a
\* subsequence of the rotation, and for the empty query it is the rotation
C21_DisplayedAsSelected ==
  /\ \A query \in Queries : IsSubsequence(homepageDisplays[query], rotatedPhotos)
  /\ homepageDisplays[<<>>] = rotatedPhotos

\* a search displays two or more photos of the rotation and hides others
C21_Witness ==
  \E query \in Queries :
    /\ Len(homepageDisplays[query]) >= 2
    /\ Len(homepageDisplays[query]) < Len(rotatedPhotos)

\* C26: isAuthReady becomes true and then stays true; an initialisation
\* error is set only together with isAuthReady, leaves userId null, and
\* nothing changes the provider's state after it
C26_AuthReady ==
  /\ <>firebase.isAuthReady
  /\ [][firebase.isAuthReady => firebase'.isAuthReady]_vars
  /\ [](firebase.firebaseInitError # "" =>
          firebase.isAuthReady /\ firebase.userId = null)
  /\ [][firebase.firebaseInitError # "" => firebase' = firebase]_vars

\* the initialisation threw: the error is set and auth is ready
C26_Witness ==
  /\ firebase.firebaseInitError = "failed"
  /\ firebase.isAuthReady
  /\ firebase.userId = null

\* the fields of the upload form
formOf(up) == <<up.file, up.caption, up.visibility, up.selectedPlayers>>

\* C25: a photo document refers to a stored file; a document is added only
\* by a call that has stored its file and obtained the URL; a call that ends
\* without a document leaves the form and the tab as they are; a call that
\* ends with its document leaves an empty form and the gallery tab; the
\* uploading flag of the component that made the call is false when the call
\* has ended, and a flag that is true becomes false
C25_UploadOrdering ==
  /\ [](\A i \in 1..Len(collection) : collection[i].fileName \in storageObjects)
  /\ [][Len(collection') > Len(collection) =>
          /\ collection' = Append(collection, collection'[Len(collection')])
          /\ \E i \in 1..Len(upload.calls) :
               /\ upload.calls[i].awaiting = "addDoc"
               /\ upload.calls[i].fileName \in storageObjects
               /\ upload.calls[i].fileName = collection'[Len(collection')].fileName
               /\ upload'.calls = unmountedCalls(without(upload.calls, i))]_vars
  /\ [][\A i \in 1..Len(upload.calls) :
          upload'.calls = without(upload.calls, i) /\ collection' = collection =>
            /\ formOf(upload') = formOf(upload)
            /\ activeTab' = activeTab
            /\ upload.calls[i].live => ~upload'.uploading]_vars
  /\ [][Len(collection') > Len(collection) =>
          /\ formOf(upload') = formOf(uploadInitial)
          /\ ~upload'.uploading
          /\ activeTab' = "gallery"]_vars
  /\ upload.uploading ~> ~upload.uploading

\* a call has ended after it stored its file and before it added a document:
\* the form shows the error with the file still selected
C25_Witness ==
  /\ Cardinality(storageObjects) > Len(collection)
  /\ upload.calls = <<>>
  /\ upload.message = "error"
  /\ upload.file # null
  /\ ~upload.uploading

\* the like documents of a photo
likesOf(photoId) == {userId \in Users : likeDoc(photoId, userId) \in likes}

\* C22: when no call of handleLike is running, the likesCount of every photo
\* document is the number of its like documents, and it is not negative
C22_LikesCountMatchesLikes ==
  likeCalls = <<>> =>
    \A k \in 1..Len(collection) :
      /\ collection[k].likesCount = Cardinality(likesOf(collection[k].id))
      /\ collection[k].likesCount >= 0

\* C23: while the Lightbox is shown, currentPhotoIndex is an index of the
\* displayed list and the photo shown is the photo at that index; a
\* navigation to an index outside the list changes neither
C23_IndexOfShownPhoto ==
  /\ [](lightboxShown =>
          /\ gallery.currentPhotoIndex \in 0..(Len(displayedPhotos) - 1)
          /\ displayedPhotos[gallery.currentPhotoIndex + 1].id =
               gallery.selectedPhotoForLightbox[1].id)
  /\ [][\A newIndex \in -1..(MaxGalleryDocs + 1) :
          newIndex \notin 0..(Len(displayedPhotos) - 1) =>
            navigated(gallery, displayedPhotos, newIndex) = gallery]_vars

\* C24: after a navigation to another photo the Lightbox shows the
\* likesCount of that photo
C24_LikesCountOfShownPhoto ==
  [][/\ lightboxShown
     /\ gallery'.isLightboxOpen
     /\ gallery'.selectedPhotoForLightbox # gallery.selectedPhotoForLightbox
     => gallery'.lightbox.likesCount = gallery'.selectedPhotoForLightbox[1].likesCount]_vars

====
